---- MODULE Spec2Model ----
(***************************************************************************)
(* A model of symbolic_pofk/linear_plus.py: the eight functions of the     *)
(* emulator of the linear matter power spectrum, and the call sequence of  *)
(* plin_plus_emulated.                                                     *)
(*                                                                         *)
(* Numbers.  The source computes in IEEE-754 binary64.  The model computes *)
(* in a decimal floating-point format of the same kind: a finite number is *)
(* m * 10^e with a mantissa of Digits significant digits, every operation  *)
(* rounds its exact result to nearest (ties to even), and the three        *)
(* special values NaN, +Inf and -Inf follow the IEEE rules.  The format is *)
(* narrower than binary64 (TLC's integers are 32 bits wide) and has no     *)
(* signed zero and no subnormal numbers; what it keeps is that arithmetic  *)
(* rounds, that it overflows to an infinity and that invalid operations    *)
(* give NaN.  log, exp and cos are computed from the rounded operations by *)
(* argument reduction and a truncated series.                              *)
(*                                                                         *)
(* Values.  A Python value is [kind, d]: a Python float ("py"), a          *)
(* numpy.float64 scalar ("np"), a one-dimensional numpy array ("arr"), or  *)
(* the outcome of an expression that did not produce a float: "raise" (a   *)
(* ZeroDivisionError of Python's own float arithmetic) and "complex"       *)
(* (Python's ** of a negative float to a fractional power).                *)
(***************************************************************************)
EXTENDS Integers, Sequences, FiniteSets, TLC

\* ------------------------------------------------------------ the format
\* numpy.float64 as modelled: Digits significant decimal digits,
\* exponents of ten between EMin and EMax.
Digits == 4
EMax == 308
EMin == -308

\* The value of a singleton set.  {e : x \in {v}} evaluates v once and names
\* its value x in e: a statement's value is computed once, before the
\* statements that use it.
The(S) == CHOOSE r \in S : TRUE

Pow10(n) == IF n <= 0 THEN 1 ELSE 10 ^ n

MantMin == Pow10(Digits - 1)
MantLim == Pow10(Digits)

Abs(i) == IF i < 0 THEN -i ELSE i
Sgn(i) == IF i < 0 THEN -1 ELSE IF i = 0 THEN 0 ELSE 1

\* The number of decimal digits of n >= 0.
NumDigits(n) ==
    IF n < 100000
    THEN (IF n < 100 THEN (IF n < 10 THEN 1 ELSE 2)
          ELSE IF n < 1000 THEN 3 ELSE IF n < 10000 THEN 4 ELSE 5)
    ELSE (IF n < 10000000 THEN (IF n < 1000000 THEN 6 ELSE 7)
          ELSE IF n < 100000000 THEN 8 ELSE IF n < 1000000000 THEN 9 ELSE 10)

\* n / d rounded to the nearest integer, ties to even (n >= 0, d > 0).
RoundDiv(n, d) ==
    LET q == n \div d
        r == n % d
    IN  IF r > d - r \/ (r = d - r /\ q % 2 = 1) THEN q + 1 ELSE q

NaN == [c |-> "nan", m |-> 0, e |-> 0]
PInf == [c |-> "inf", m |-> 1, e |-> 0]
NInf == [c |-> "inf", m |-> -1, e |-> 0]
Zero == [c |-> "fin", m |-> 0, e |-> 0]

IsNaN(x) == x.c = "nan"
IsInf(x) == x.c = "inf"
IsFin(x) == x.c = "fin"
IsZero(x) == x.c = "fin" /\ x.m = 0
Sign(x) == Sgn(x.m)
InfOf(s) == IF s < 0 THEN NInf ELSE PInf

\* The float nearest to m * 10^e: the mantissa rounded to Digits digits,
\* an infinity above the largest exponent, zero below the smallest.
Round(a, n, s, e) ==
    LET q0 == IF n > Digits THEN RoundDiv(a, Pow10(n - Digits))
              ELSE a * Pow10(Digits - n)
        carry == q0 = MantLim
        ex == e + (n - Digits) + (IF carry THEN 1 ELSE 0)
    IN  IF ex + Digits - 1 > EMax THEN InfOf(s)
        ELSE IF ex + Digits - 1 < EMin THEN Zero
        ELSE [c |-> "fin", m |-> s * (IF carry THEN MantMin ELSE q0), e |-> ex]
Fin(m, e) ==
    The({IF mm = 0 THEN Zero ELSE Round(Abs(mm), NumDigits(Abs(mm)), Sgn(mm), ee) :
         mm \in {m}, ee \in {e}})

\* An integer, and a decimal literal n * 10^e of the source.
FInt(n) == Fin(n, 0)
Dec(n, e) == Fin(n, e)

FNeg(x) == IF IsNaN(x) THEN NaN ELSE [x EXCEPT !.m = -x.m]

\* x < y on floats that are not NaN.
FLess(x, y) ==
    IF IsInf(x) \/ IsInf(y)
    THEN (IsInf(x) /\ x.m < 0 /\ ~(IsInf(y) /\ y.m < 0))
         \/ (IsInf(y) /\ y.m > 0 /\ ~(IsInf(x) /\ x.m > 0))
    ELSE IF Sign(x) # Sign(y) THEN Sign(x) < Sign(y)
    ELSE IF Sign(x) = 0 THEN FALSE
    ELSE IF Sign(x) > 0 THEN x.e < y.e \/ (x.e = y.e /\ x.m < y.m)
    ELSE x.e > y.e \/ (x.e = y.e /\ x.m < y.m)

FAbs(x) == IF IsNaN(x) THEN NaN ELSE [x EXCEPT !.m = Abs(x.m)]

\* The operands of the operations below are values: an operand that is
\* itself the result of an operation has been named first.
FAdd(x, y) ==
    IF IsNaN(x) \/ IsNaN(y) THEN NaN
    ELSE IF IsInf(x) THEN (IF IsInf(y) /\ y.m # x.m THEN NaN ELSE x)
    ELSE IF IsInf(y) THEN y
    ELSE IF x.m = 0 THEN y
    ELSE IF y.m = 0 THEN x
    ELSE IF x.e - y.e > Digits + 1 THEN x
    ELSE IF y.e - x.e > Digits + 1 THEN y
    ELSE Fin(IF x.e >= y.e THEN x.m * Pow10(x.e - y.e) + y.m
             ELSE y.m * Pow10(y.e - x.e) + x.m,
             IF x.e >= y.e THEN y.e ELSE x.e)

FSub(x, y) == FAdd(x, FNeg(y))

FMul(x, y) ==
    IF IsNaN(x) \/ IsNaN(y) THEN NaN
    ELSE IF IsInf(x) \/ IsInf(y)
         THEN (IF x.m = 0 \/ y.m = 0 THEN NaN ELSE InfOf(Sgn(x.m) * Sgn(y.m)))
    ELSE Fin(x.m * y.m, x.e + y.e)

FDiv(x, y) ==
    IF IsNaN(x) \/ IsNaN(y) THEN NaN
    ELSE IF IsInf(x)
         THEN (IF IsInf(y) THEN NaN
               ELSE InfOf(Sgn(x.m) * (IF y.m < 0 THEN -1 ELSE 1)))
    ELSE IF IsInf(y) THEN Zero
    ELSE IF y.m = 0 THEN (IF x.m = 0 THEN NaN ELSE InfOf(x.m))
    ELSE IF x.m = 0 THEN Zero
    ELSE LET n == Abs(x.m) * Pow10(Digits + 1)
             q == n \div Abs(y.m)
             r == n % Abs(y.m)
         IN  Fin(Sgn(x.m) * Sgn(y.m) * (q * 10 + (IF r = 0 THEN 0 ELSE 1)),
                 x.e - y.e - Digits - 2)

\* The largest s in lo..hi with s * s <= n, found a hundred at a time.
ISqrt(n, lo, hi) ==
    The({CHOOSE s \in (100 * top)..(100 * top + 99) : s * s <= n /\ n < (s + 1) * (s + 1) :
         top \in {CHOOSE t \in (lo \div 100)..(hi \div 100) :
                      (100 * t) * (100 * t) <= n
                      /\ n < (100 * t + 100) * (100 * t + 100)}})

FSqrt(x) ==
    IF IsNaN(x) THEN NaN
    ELSE IF IsInf(x) THEN (IF x.m > 0 THEN PInf ELSE NaN)
    ELSE IF x.m < 0 THEN NaN
    ELSE IF x.m = 0 THEN Zero
    ELSE The({The({
             Fin(IF x.m * Pow10(sh) - s * s > s THEN s + 1 ELSE s, (x.e - sh) \div 2)
             : s \in {ISqrt(x.m * Pow10(sh), MantMin, MantLim - 1)}})
             : sh \in {IF (x.e - (Digits - 1)) % 2 = 0 THEN Digits - 1 ELSE Digits}})

\* The integer nearest to a float of small magnitude.
ToInt(x) ==
    IF x.m = 0 THEN 0
    ELSE IF x.e >= 0 THEN x.m * Pow10(x.e)
    ELSE IF -x.e > Digits + 1 THEN 0
    ELSE Sgn(x.m) * RoundDiv(Abs(x.m), Pow10(-x.e))

\* ------------------------------------------------- log, exp, cos, power
\* ln 10, pi, 2 pi and 1 in the format.
LN10 == [c |-> "fin", m |-> 2303, e |-> -3]
PI == [c |-> "fin", m |-> 3142, e |-> -3]
TWOPI == [c |-> "fin", m |-> 6283, e |-> -3]
One == [c |-> "fin", m |-> 1000, e |-> -3]

\* The arithmetic of the format as one recursive operator, so that TLC
\* unfolds the series below over it without copying each operation.
RECURSIVE Float(_, _, _)
TAdd(x, y) == Float("add", x, y)
TSub(x, y) == Float("sub", x, y)
TMul(x, y) == Float("mul", x, y)
TDiv(x, y) == Float("div", x, y)
TFin(m, e) == Float("fin", m, e)
TInt(n) == Float("fin", n, 0)

\* 1/(2j+1) + t2 acc: one Horner step of t + t^3/3 + t^5/5 + ...
AtanhStep(t2, j, acc) ==
    The({TAdd(p, q) : p \in {TDiv(One, TInt(2 * j + 1))}, q \in {TMul(t2, acc)}})
RECURSIVE AtanhSeries(_, _, _)
AtanhSeries(t2, j, acc) ==
    IF j < 0 THEN acc
    ELSE The({AtanhSeries(t2, j - 1, nxt) : nxt \in {AtanhStep(t2, j, acc)}})

LogTerms == 7

\* ln of a finite x > 0: x = y * 10^k with 0.3162 <= y < 3.162, and
\* ln y = 2 atanh((y - 1) / (y + 1)).
LnPos(x) ==
    The({The({The({The({The({
        TAdd(TMul(TInt(k), LN10), s)
        : s \in {TMul(TMul(TInt(2), t), a)}})
        : a \in {AtanhSeries(t2, LogTerms - 1, Zero)}})
        : t2 \in {TMul(t, t)}})
        : t \in {TDiv(TSub(y, One), TAdd(y, One))}})
        : k \in {x.e + (Digits - 1) + (IF x.m * x.m >= 10 * MantMin * MantMin THEN 1 ELSE 0)},
          y \in {[x EXCEPT !.e = -(Digits - 1)
                                 - (IF x.m * x.m >= 10 * MantMin * MantMin THEN 1 ELSE 0)]}})

Log(x) ==
    IF IsNaN(x) THEN NaN
    ELSE IF IsInf(x) THEN (IF x.m > 0 THEN PInf ELSE NaN)
    ELSE IF x.m < 0 THEN NaN
    ELSE IF x.m = 0 THEN NInf
    ELSE LnPos(x)

\* 1 + r/j acc: one Horner step of the Taylor series of exp.
ExpStep(r, j, acc) == The({TAdd(One, p) : p \in {TMul(TDiv(r, TInt(j)), acc)}})
RECURSIVE ExpSeries(_, _, _)
ExpSeries(r, j, acc) ==
    IF j = 0 THEN acc
    ELSE The({ExpSeries(r, j - 1, nxt) : nxt \in {ExpStep(r, j, acc)}})

ExpTerms == 10
ExpHuge == 800

\* exp of a finite x: x = k ln 10 + r with |r| <= (ln 10) / 2.
ExpFin(x) ==
    IF FLess(TInt(ExpHuge), x) THEN PInf
    ELSE IF FLess(x, TInt(-ExpHuge)) THEN Zero
    ELSE The({The({The({
             TFin(t.m, t.e + k)
             : t \in {ExpSeries(r, ExpTerms, One)}})
             : r \in {TSub(x, TMul(TInt(k), LN10))}})
             : k \in {ToInt(TDiv(x, LN10))}})

Exp(x) ==
    IF IsNaN(x) THEN NaN
    ELSE IF IsInf(x) THEN (IF x.m > 0 THEN PInf ELSE Zero)
    ELSE ExpFin(x)

\* 1 - r2/((2j-1)(2j)) acc: one Horner step of the Taylor series of cos.
CosStep(r2, j, acc) ==
    The({TSub(One, p) : p \in {TMul(TDiv(r2, TInt((2 * j - 1) * (2 * j))), acc)}})
RECURSIVE CosSeries(_, _, _)
CosSeries(r2, j, acc) ==
    IF j = 0 THEN acc
    ELSE The({CosSeries(r2, j - 1, nxt) : nxt \in {CosStep(r2, j, acc)}})

CosTerms == 6
CosHuge == 10000

\* cos of a finite x: reduced modulo 2 pi to [-pi, pi], folded to [0, pi/2].
CosFin(x) ==
    The({The({The({The({The({The({
        IF FLess(One, w) THEN One ELSE IF FLess(w, FNeg(One)) THEN FNeg(One) ELSE w
        : w \in {IF FLess(TDiv(PI, TInt(2)), r) THEN FNeg(v) ELSE v}})
        : v \in {CosSeries(u2, CosTerms, One)}})
        : u2 \in {TMul(u, u)}})
        : u \in {IF FLess(TDiv(PI, TInt(2)), r) THEN TSub(PI, r) ELSE r}})
        : r \in {FAbs(TSub(FAbs(x), TMul(TInt(k), TWOPI)))}})
        : k \in {ToInt(TDiv(FAbs(x), TWOPI))}})

Cos(x) ==
    IF IsNaN(x) \/ IsInf(x) THEN NaN
    ELSE IF ~FLess(FAbs(x), TInt(CosHuge)) THEN NaN
    ELSE CosFin(x)

\* Whether a finite float is an integer of small magnitude, and which.
IsSmallInt(y) ==
    /\ IsFin(y)
    /\ y.m # 0 => (y.e >= -(Digits - 1) /\ y.e <= 0
                   /\ y.m % Pow10(-y.e) = 0 /\ Abs(y.m) \div Pow10(-y.e) <= 4)

\* x multiplied n times, for n in 1..4.
PowNat(x, n) ==
    IF n = 1 THEN x
    ELSE The({IF n = 2 THEN x2
              ELSE The({IF n = 3 THEN x3 ELSE TMul(x3, x) : x3 \in {TMul(x2, x)}}) :
              x2 \in {TMul(x, x)}})

IsInteger(y) == IsFin(y) /\ (y.e >= 0 \/ (-y.e < Digits /\ y.m % Pow10(-y.e) = 0))
IsOdd(y) == IsFin(y) /\ y.e <= 0 /\ -y.e < Digits /\ (y.m \div Pow10(-y.e)) % 2 # 0

\* exp(y ln |x|), with the sign of x for an odd integer y.
PowExp(x, y) ==
    The({The({The({
        IF x.m < 0 /\ IsOdd(y) THEN FNeg(r) ELSE r
        : r \in {Float("exp", p, p)}})
        : p \in {TMul(y, l)}})
        : l \in {Float("log", FAbs(x), x)}})

\* x ** y: an exact product for a small integer y, exp(y ln |x|) otherwise.
Pow(x, y) ==
    IF IsZero(y) THEN One
    ELSE IF x = One THEN One
    ELSE IF IsNaN(x) \/ IsNaN(y) THEN NaN
    ELSE IF IsSmallInt(y)
         THEN (IF y.m > 0 THEN PowNat(x, ToInt(y))
               ELSE The({TDiv(One, p) : p \in {PowNat(x, -ToInt(y))}}))
    ELSE IF IsFin(x) /\ x.m = 0 THEN (IF y.m > 0 THEN Zero ELSE PInf)
    ELSE IF x.m < 0 /\ ~IsInf(y) /\ ~IsInteger(y) THEN NaN
    ELSE PowExp(x, y)

Float(op, x, y) ==
    CASE op = "add" -> FAdd(x, y)
      [] op = "sub" -> FSub(x, y)
      [] op = "mul" -> FMul(x, y)
      [] op = "div" -> FDiv(x, y)
      [] op = "fin" -> Fin(x, y)
      [] op = "log" -> Log(x)
      [] op = "exp" -> Exp(x)
      [] op = "cos" -> Cos(x)
      [] op = "pow" -> Pow(x, y)

\* log, exp, cos and ** of the format.
FLog(x) == Float("log", x, x)
FExp(x) == Float("exp", x, x)
FCos(x) == Float("cos", x, x)
FPow(x, y) == Float("pow", x, y)

\* ---------------------------------------------------------- Python values
py(x) == [kind |-> "py", d |-> <<x>>]
npf(x) == [kind |-> "np", d |-> <<x>>]
ndarray(s) == [kind |-> "arr", d |-> s]
None == [kind |-> "none", d |-> <<>>]
Raise == [kind |-> "raise", d |-> <<>>]
Complex == [kind |-> "complex", d |-> <<>>]

IsArr(x) == x.kind = "arr"
IsNum(x) == x.kind \in {"py", "np", "arr"}

\* numpy broadcasting of a scalar against a one-dimensional array: the
\* i-th element of an operand, and the kind and length of a result.
El(x, i) == IF IsArr(x) /\ Len(x.d) # 1 THEN x.d[i] ELSE x.d[1]
Kind2(x, y) ==
    IF IsArr(x) \/ IsArr(y) THEN "arr"
    ELSE IF x.kind = "np" \/ y.kind = "np" THEN "np" ELSE "py"
Len2(x, y) ==
    IF IsArr(x) /\ (~IsArr(y) \/ Len(y.d) = 1) THEN Len(x.d)
    ELSE IF IsArr(y) THEN Len(y.d) ELSE 1
Fits(x, y) ==
    IsArr(x) /\ IsArr(y) => Len(x.d) = Len(y.d) \/ Len(x.d) = 1 \/ Len(y.d) = 1

\* The elements of a result, as a sequence.
Elements(f) == <<>> \o f

\* An elementwise binary operation on two values, and a numpy function of
\* one value.
Lift2(op(_, _), x, y) ==
    IF x.kind = "raise" \/ y.kind = "raise" THEN Raise
    ELSE IF ~IsNum(x) \/ ~IsNum(y) THEN
        (IF x.kind = "complex" /\ y.kind # "none" THEN Complex
         ELSE IF y.kind = "complex" /\ x.kind # "none" THEN Complex
         ELSE Raise)
    ELSE IF ~Fits(x, y) THEN Raise
    ELSE [kind |-> Kind2(x, y),
          d |-> Elements([i \in 1..Len2(x, y) |-> op(El(x, i), El(y, i))])]

Lift1(op(_), x) ==
    IF IsNum(x)
    THEN [kind |-> IF IsArr(x) THEN "arr" ELSE "np",
          d |-> Elements([i \in 1..Len(x.d) |-> op(x.d[i])])]
    ELSE IF x.kind = "complex" THEN Complex ELSE Raise

BothPy(x, y) == x.kind = "py" /\ y.kind = "py"

\* Python's operators + - * / ** and unary minus: the operands are
\* evaluated, then the operation is applied.  Between two Python floats a
\* division by zero raises, and so does 0.0 to a negative power and a power
\* that overflows; a negative float to a fractional power is complex.
add(x, y) == The({Lift2(FAdd, u, v) : u \in {x}, v \in {y}})
sub(x, y) == The({Lift2(FSub, u, v) : u \in {x}, v \in {y}})
mul(x, y) == The({Lift2(FMul, u, v) : u \in {x}, v \in {y}})
div(x, y) ==
    The({IF BothPy(u, v) /\ IsZero(v.d[1]) THEN Raise ELSE Lift2(FDiv, u, v) :
         u \in {x}, v \in {y}})
PyPow(a, b, r) ==
    IF IsZero(a) /\ IsFin(b) /\ b.m < 0 THEN Raise
    ELSE IF IsFin(a) /\ a.m < 0 /\ IsFin(b) /\ ~IsInteger(b) THEN Complex
    ELSE IF IsFin(a) /\ IsFin(b) /\ IsInf(r) THEN Raise
    ELSE py(r)
pow(x, y) ==
    The({The({IF BothPy(u, v) /\ r.kind = "py" THEN PyPow(u.d[1], v.d[1], r.d[1]) ELSE r :
              r \in {Lift2(FPow, u, v)}}) :
         u \in {x}, v \in {y}})
neg(x) ==
    The({IF IsNum(u) THEN [u EXCEPT !.d = Elements([i \in 1..Len(u.d) |-> FNeg(u.d[i])])]
         ELSE u :
         u \in {x}})

\* numpy's functions and constant, as the source uses them (line 2).
np_log(x) == The({Lift1(FLog, u) : u \in {x}})
np_sqrt(x) == The({Lift1(FSqrt, u) : u \in {x}})
np_exp(x) == The({Lift1(FExp, u) : u \in {x}})
np_cos(x) == The({Lift1(FCos, u) : u \in {x}})
np_power(x, y) ==
    The({IF r.kind = "py" THEN [r EXCEPT !.kind = "np"] ELSE r :
         r \in {Lift2(FPow, u, v) : u \in {x}, v \in {y}}})
np_pi == py(PI)

\* Python literals: an int, and a float literal n * 10^e.
int(n) == py(FInt(n))
lit(n, e) == py(Dec(n, e))

\* ------------------------------------------------ Astosigma8, sigma8toAs
\* The list c of both functions (a Python list: its items are floats).
Astosigma8_c ==
    << <<187, -4>>, <<24891, -4>>, <<129495, -4>>, <<7527, -4>>,
       <<23685, -4>>, <<15062, -4>>, <<13057, -4>>, <<885, -4>>,
       <<1471, -4>>, <<34982, -4>>, <<6, -3>>, <<192779, -4>>,
       <<111463, -4>>, <<15433, -4>>, <<70578, -4>>, <<20564, -4>> >>
c(i) == py(Dec(Astosigma8_c[i + 1][1], Astosigma8_c[i + 1][2]))

\* math.log in place of np.log: it raises outside its domain.
math_log(x) ==
    The({IF u.kind \in {"py", "np"} /\ (IsNaN(u.d[1]) \/ FLess(Zero, u.d[1]))
         THEN [Lift1(FLog, u) EXCEPT !.kind = "py"]
         ELSE Raise :
         u \in {x}})
Astosigma8_term1_math_log(Om, Ob, w0, wa) ==
    mul(c(0), add(add(mul(neg(Ob), c(1)), mul(Om, c(2))),
                  math_log(add(mul(neg(c(3)), w0),
                               math_log(sub(mul(neg(c(4)), w0), mul(c(5), wa)))))))

Astosigma8_term1(Om, Ob, w0, wa) ==
    mul(c(0), add(add(mul(neg(Ob), c(1)), mul(Om, c(2))),
                  np_log(add(mul(neg(c(3)), w0),
                             np_log(sub(mul(neg(c(4)), w0), mul(c(5), wa)))))))

Astosigma8_term2(Om, ns, mnu, wa) ==
    sub(add(add(mul(Om, c(6)), mul(c(7), mnu)), mul(c(8), ns)),
        np_log(sub(mul(Om, c(9)), mul(c(10), wa))))

Astosigma8_term3(Om, Ob, ns) == sub(sub(mul(Ob, c(11)), mul(Om, c(12))), ns)

Astosigma8_term4(Om, h, ns, mnu) ==
    add(add(sub(mul(neg(Om), c(13)), mul(c(14), h)), mul(c(15), mnu)), ns)

Astosigma8_result(term1, term2, term3, term4) ==
    mul(mul(mul(term1, term2), term3), term4)

Astosigma8_return(result, As) == mul(result, np_sqrt(As))

\* The statements of a body run in their order: each names its value for
\* the statements after it.
Astosigma8(As, Om, Ob, h, ns, mnu, w0, wa) ==
    The({The({
        Astosigma8_return(result, As)
        : result \in {Astosigma8_result(term1, term2, term3, term4)}})
        : term1 \in {Astosigma8_term1(Om, Ob, w0, wa)},
          term2 \in {Astosigma8_term2(Om, ns, mnu, wa)},
          term3 \in {Astosigma8_term3(Om, Ob, ns)},
          term4 \in {Astosigma8_term4(Om, h, ns, mnu)}})

\* sigma8toAs repeats the four terms of Astosigma8 with the same list c.
sigma8toAs_result(term1, term2, term3, term4) ==
    mul(mul(mul(term1, term2), term3), term4)

\* Line 71 without the square.
sigma8toAs_return_unsquared(sigma8, result) == div(sigma8, result)
sigma8toAs_return(sigma8, result) == pow(div(sigma8, result), int(2))

sigma8toAs(sigma8, Om, Ob, h, ns, mnu, w0, wa) ==
    The({The({
        sigma8toAs_return(sigma8, result)
        : result \in {sigma8toAs_result(term1, term2, term3, term4)}})
        : term1 \in {Astosigma8_term1(Om, Ob, w0, wa)},
          term2 \in {Astosigma8_term2(Om, ns, mnu, wa)},
          term3 \in {Astosigma8_term3(Om, Ob, ns)},
          term4 \in {Astosigma8_term4(Om, h, ns, mnu)}})

\* --------------------------------------------------------------------- R
\* The numpy array d: its items are numpy.float64.
R_d ==
    << <<8545, -4>>, <<394, -3>>, <<7294, -4>>, <<5347, -4>>, <<4662, -4>>,
       <<46669, -4>>, <<4136, -4>>, <<14769, -4>>, <<5959, -4>>,
       <<4553, -4>>, <<799, -4>>, <<58311, -4>>, <<58014, -4>>,
       <<67085, -4>>, <<3445, -4>>, <<12498, -4>>, <<3756, -4>>,
       <<2136, -4>> >>
d(i) == npf(Dec(R_d[i + 1][1], R_d[i + 1][2]))

R_part1 == d(0)

R_denominator_inner1(Om, w0, wa, a) ==
    add(add(mul(a, d(1)), d(2)),
        mul(sub(mul(Om, d(3)), mul(a, d(4))),
            np_log(sub(mul(neg(d(5)), w0), mul(d(6), wa)))))

R_part2(denominator_inner1) == div(int(-1), denominator_inner1)

R_numerator_inner2(Om, w0, wa, a) ==
    add(sub(mul(Om, d(7)), mul(a, d(8))),
        np_log(sub(mul(neg(d(9)), w0), mul(d(10), wa))))

R_denominator_inner2(Om, w0, wa, a) ==
    add(add(mul(neg(a), d(11)), d(12)),
        mul(mul(d(13), sub(add(mul(Om, d(14)), mul(a, d(15))), int(1))),
            add(add(mul(d(16), w0), mul(d(17), wa)), int(1))))

R_part3(numerator_inner2, denominator_inner2) ==
    div(neg(numerator_inner2), denominator_inner2)

\* Line 104 without the factor (1 - a).
R_result_without_factor(a, part1, part2, part3) ==
    add(int(1), add(add(part1, part2), part3))
R_result(a, part1, part2, part3) ==
    add(int(1), mul(sub(int(1), a), add(add(part1, part2), part3)))

R(As, Om, Ob, h, ns, mnu, w0, wa, a) ==
    The({The({The({
        R_result(a, part1, part2, part3)
        : part3 \in {R_part3(numerator_inner2, denominator_inner2)}})
        : part2 \in {R_part2(denominator_inner1)},
          numerator_inner2 \in {R_numerator_inner2(Om, w0, wa, a)},
          denominator_inner2 \in {R_denominator_inner2(Om, w0, wa, a)}})
        : part1 \in {R_part1},
          denominator_inner1 \in {R_denominator_inner1(Om, w0, wa, a)}})

\* --------------------------------------------------------------- log10_S
log10_S_e ==
    << <<2841, -4>>, <<1679, -4>>, <<534, -4>>, <<24, -4>>, <<1183, -4>>,
       <<3971, -4>>, <<985, -4>>, <<9, -4>>, <<1258, -4>>, <<2476, -4>>,
       <<1841, -4>>, <<316, -4>>, <<1385, -4>>, <<2825, -4>>,
       <<8098, -4>>, <<19, -3>>, <<1376, -4>>, <<3733, -4>> >>
e(i) == npf(Dec(log10_S_e[i + 1][1], log10_S_e[i + 1][2]))

log10_S_part1(h) == mul(neg(e(0)), h)
log10_S_part2(w0) == mul(neg(e(1)), w0)
\* part3 computed from k read backwards.
log10_S_part3_reversed_k(k, mnu) ==
    div(mul(neg(e(2)), mnu),
        np_sqrt(add(e(3),
                    pow([k EXCEPT !.d = Elements([i \in 1..Len(k.d) |->
                                                    k.d[Len(k.d) + 1 - i]])],
                        int(2)))))
log10_S_part3(k, mnu) ==
    div(mul(neg(e(2)), mnu), np_sqrt(add(e(3), pow(k, int(2)))))
log10_S_part4(h, mnu) == div(neg(mul(e(4), h)), add(mul(e(5), h), mnu))
log10_S_part5(k, Om, h, mnu) ==
    div(mul(e(6), mnu),
        mul(h, np_sqrt(add(e(7), pow(add(mul(Om, e(8)), k), int(2))))))
log10_S_numerator_inner(Ob, w0, wa) ==
    add(sub(sub(mul(e(9), Ob), mul(e(10), w0)), mul(e(11), wa)),
        div(add(mul(e(12), w0), e(13)), add(mul(e(14), wa), w0)))
log10_S_denominator_inner(Om, w0) ==
    np_sqrt(add(e(15), pow(add(Om, mul(e(16), np_log(mul(neg(e(17)), w0)))), int(2))))
log10_S_part6(numerator_inner, denominator_inner) ==
    div(numerator_inner, denominator_inner)
log10_S_result(part1, part2, part3, part4, part5, part6) ==
    add(add(add(add(add(part1, part2), part3), part4), part5), part6)
log10_S_return(result) == div(result, int(10))

log10_S(k, As, Om, Ob, h, ns, mnu, w0, wa) ==
    The({The({The({
        log10_S_return(result)
        : result \in {log10_S_result(part1, part2, part3, part4, part5, part6)}})
        : part6 \in {log10_S_part6(numerator_inner, denominator_inner)}})
        : part1 \in {log10_S_part1(h)},
          part2 \in {log10_S_part2(w0)},
          part3 \in {log10_S_part3(k, mnu)},
          part4 \in {log10_S_part4(h, mnu)},
          part5 \in {log10_S_part5(k, Om, h, mnu)},
          numerator_inner \in {log10_S_numerator_inner(Ob, w0, wa)},
          denominator_inner \in {log10_S_denominator_inner(Om, w0)}})

\* ----------------------------------------------------- get_approximate_D
get_approximate_D_mnu(mnu) == add(mnu, lit(1, -10))
theta2p7 == div(lit(27255, -4), lit(27, -1))
get_approximate_D_z(a) == sub(div(int(1), a), int(1))
get_approximate_D_zeq(Om, h) ==
    div(mul(mul(lit(25, 3), Om), pow(h, int(2))), pow(theta2p7, int(4)))

\* Omega and OL as first assigned, g, and the two after the in-place division.
get_approximate_D_Omega0(Om, a) == mul(Om, pow(a, int(-3)))
get_approximate_D_OL0(Om, w0, wa, a) ==
    mul(mul(sub(int(1), Om), pow(a, mul(int(-3), add(add(int(1), w0), wa)))),
        np_exp(mul(mul(int(-3), wa), sub(int(1), a))))
get_approximate_D_g(Omega0, OL0) == np_sqrt(add(Omega0, OL0))
get_approximate_D_Omega(Omega0, g) == div(Omega0, pow(g, int(2)))
get_approximate_D_OL(OL0, g) == div(OL0, pow(g, int(2)))

get_approximate_D_D1(zeq, z, Omega, OL) ==
    div(div(mul(mul(div(add(int(1), zeq), add(int(1), z)), int(5)), Omega), int(2)),
        add(sub(pow(Omega, div(int(4), int(7))), OL),
            mul(add(int(1), div(Omega, int(2))), add(int(1), div(OL, int(70))))))

get_approximate_D_Onu(mnu, h) == div(div(mnu, lit(9314, -2)), pow(h, int(2)))
get_approximate_D_fnu(Onu, Om) == div(Onu, Om)
get_approximate_D_fcb(Om, Ob, Onu) == add(div(sub(sub(Om, Ob), Onu), Om), div(Ob, Om))
get_approximate_D_pcb(fcb) ==
    mul(div(int(1), int(4)), sub(int(5), np_sqrt(add(int(1), mul(int(24), fcb)))))

\* Nnu = (3 if mnu != 0.0 else 0), on the value the name mnu is bound to
\* when the line runs.
get_approximate_D_Nnu(mnu) == IF mnu # py(Zero) THEN int(3) ELSE int(0)

get_approximate_D_q(k, Om, h) ==
    div(mul(mul(k, h), pow(theta2p7, int(2))), mul(Om, pow(h, int(2))))
get_approximate_D_yfs(fnu, Nnu, q) ==
    mul(mul(mul(lit(172, -1), fnu),
            add(int(1), div(lit(488, -3), pow(fnu, div(int(7), int(6)))))),
        pow(div(mul(Nnu, q), fnu), int(2)))
get_approximate_D_Dcbnu(fcb, pcb, D1, yfs) ==
    mul(pow(add(pow(fcb, div(lit(7, -1), pcb)),
                pow(div(D1, add(int(1), yfs)), lit(7, -1))),
            div(pcb, lit(7, -1))),
        pow(D1, sub(int(1), pcb)))

get_approximate_D_D(Dcbnu, zeq) == div(Dcbnu, add(int(1), zeq))

\* The local frame of get_approximate_D at its return statement.
get_approximate_D_frame(k, As, Om, Ob, h, ns, mnu_arg, w0, wa, a) ==
    The({The({The({The({The({The({The({The({The({
        [mnu |-> mnu, Nnu |-> Nnu, fnu |-> fnu, yfs |-> yfs, D1 |-> D1, D |-> D]
        : D \in {get_approximate_D_D(Dcbnu, zeq)}})
        : Dcbnu \in {get_approximate_D_Dcbnu(fcb, pcb, D1, yfs)}})
        : yfs \in {get_approximate_D_yfs(fnu, Nnu, q)}})
        : pcb \in {get_approximate_D_pcb(fcb)},
          Nnu \in {get_approximate_D_Nnu(mnu)},
          q \in {get_approximate_D_q(k, Om, h)}})
        : fnu \in {get_approximate_D_fnu(Onu, Om)},
          fcb \in {get_approximate_D_fcb(Om, Ob, Onu)}})
        : D1 \in {get_approximate_D_D1(zeq, z, Omega, OL)},
          Onu \in {get_approximate_D_Onu(mnu, h)}})
        : Omega \in {get_approximate_D_Omega(Omega0, g)},
          OL \in {get_approximate_D_OL(OL0, g)}})
        : g \in {get_approximate_D_g(Omega0, OL0)}})
        : mnu \in {get_approximate_D_mnu(mnu_arg)},
          z \in {get_approximate_D_z(a)},
          zeq \in {get_approximate_D_zeq(Om, h)},
          Omega0 \in {get_approximate_D_Omega0(Om, a)},
          OL0 \in {get_approximate_D_OL0(Om, w0, wa, a)}})

get_approximate_D(k, As, Om, Ob, h, ns, mnu, w0, wa, a) ==
    get_approximate_D_frame(k, As, Om, Ob, h, ns, mnu, w0, wa, a).D

\* ------------------------------------------------------ get_eisensteinhu
get_eisensteinhu_s(om0h2, ombh2) ==
    div(mul(lit(445, -1), np_log(div(lit(983, -2), om0h2))),
        np_sqrt(add(lit(10, -1), mul(lit(100, -1), pow(ombh2, lit(75, -2))))))
get_eisensteinhu_alphaGamma(om0h2, ombom0) ==
    add(sub(lit(10, -1), mul(mul(lit(328, -3), np_log(mul(lit(4310, -1), om0h2))), ombom0)),
        mul(mul(lit(38, -2), np_log(mul(lit(223, -1), om0h2))), pow(ombom0, int(2))))
get_eisensteinhu_Gamma(k, Om, h, alphaGamma, s) ==
    mul(mul(Om, h),
        add(alphaGamma,
            div(sub(lit(10, -1), alphaGamma),
                add(lit(10, -1), pow(mul(mul(mul(lit(43, -2), k), h), s), int(4))))))
get_eisensteinhu_q(k, Gamma) == div(mul(k, pow(theta2p7, int(2))), Gamma)
get_eisensteinhu_tk_eh(q) ==
    The({div(L0, add(L0, mul(C0, pow(q, int(2))))) :
         C0 \in {add(lit(142, -1),
                     div(lit(7310, -1), add(lit(10, -1), mul(lit(625, -1), q))))},
         L0 \in {np_log(add(mul(lit(20, -1), np_exp(lit(10, -1))), mul(lit(18, -1), q)))}})
kpivot == lit(5, -2)
get_eisensteinhu_pk(k, As, Om, h, ns, tk_eh) ==
    mul(mul(mul(mul(div(mul(int(2), pow(np_pi, int(2))), pow(k, int(3))),
                    mul(As, lit(1, -9))),
                pow(div(mul(k, h), kpivot), sub(ns, int(1)))),
            pow(div(div(mul(mul(int(2), pow(k, int(2))), pow(int(2998), int(2))), int(5)), Om),
                int(2))),
        pow(tk_eh, int(2)))

get_eisensteinhu(k, As, Om, Ob, h, ns, mnu, w0, wa) ==
    The({The({The({The({The({
        get_eisensteinhu_pk(k, As, Om, h, ns, tk_eh)
        : tk_eh \in {get_eisensteinhu_tk_eh(q)}})
        : q \in {get_eisensteinhu_q(k, Gamma)}})
        : Gamma \in {get_eisensteinhu_Gamma(k, Om, h, alphaGamma, s)}})
        : s \in {get_eisensteinhu_s(om0h2, ombh2)},
          alphaGamma \in {get_eisensteinhu_alphaGamma(om0h2, ombom0)}})
        : ombom0 \in {div(Ob, Om)},
          om0h2 \in {mul(Om, pow(h, int(2)))},
          ombh2 \in {mul(Ob, pow(h, int(2)))}})

\* --------------------------------------------------------- logF_fiducial
\* The list b; a literal of more than nine digits is cut to nine.
logF_fiducial_b ==
    << <<5448654, -8>>, <<379, -5>>, <<396711937, -10>>, <<127733432, -9>>,
       <<135, -2>>, <<405354386, -8>>, <<808453905, -12>>, <<188524310, -8>>,
       <<114183729, -9>>, <<3798, -3>>, <<14909, -3>>, <<556, -2>>,
       <<158274343, -7>>, <<230755622, -10>>, <<86531976, -8>>,
       <<842544264, -9>>, <<4553956, -6>>, <<5117, -3>>, <<70023424, -6>>,
       <<1107, -5>>, <<535, -2>>, <<6421, -3>>, <<134309, -3>>, <<5324, -3>>,
       <<21532, -3>>, <<4742, -3>>, <<16687225, -6>>, <<3078, -3>>,
       <<16987, -3>>, <<5881491, -8>>, <<686469056, -12>>, <<195498, -3>>,
       <<384544575, -11>>, <<276696019, -9>>, <<7385, -3>>,
       <<123960625, -7>>, <<134114371, -10>> >>
b(i) == py(Dec(logF_fiducial_b[i + 1][1], logF_fiducial_b[i + 1][2]))

logF_fiducial_line1(h) == sub(mul(b(0), h), b(1))

logF_fiducial_line2(k, Om, Ob, h) ==
    mul(pow(div(mul(Ob, b(2)), np_sqrt(add(pow(h, int(2)), b(3)))), mul(b(4), Om)),
        sub(mul(mul(mul(div(sub(mul(b(5), k), Ob),
                            np_sqrt(add(b(6), pow(sub(Ob, mul(b(7), k)), int(2))))),
                        b(8)),
                    pow(mul(b(9), k), mul(neg(b(10)), k))),
                np_cos(sub(mul(Om, b(11)),
                           div(mul(b(12), k), np_sqrt(add(b(13), pow(Ob, int(2)))))))),
            mul(mul(b(14),
                    sub(div(mul(b(15), k), np_sqrt(add(int(1), mul(b(16), pow(k, int(2)))))),
                        Om)),
                np_cos(div(mul(b(17), h),
                           np_sqrt(add(int(1), mul(b(18), pow(k, int(2))))))))))

logF_fiducial_line3(k, Om, h) ==
    mul(mul(b(19),
            add(sub(add(mul(b(20), Om), mul(b(21), h)), np_log(mul(b(22), k))),
                pow(mul(b(23), k), mul(neg(b(24)), k)))),
        np_cos(div(b(25), np_sqrt(add(int(1), mul(b(26), pow(k, int(2))))))))

logF_fiducial_line4(k, Om, Ob, h) ==
    mul(mul(pow(mul(b(27), k), mul(neg(b(28)), k)),
            sub(mul(b(29), k),
                div(mul(b(30), np_log(mul(b(31), k))),
                    np_sqrt(add(b(32), pow(sub(Om, mul(b(33), h)), int(2))))))),
        np_cos(sub(mul(Om, b(34)),
                   div(mul(b(35), k), np_sqrt(add(pow(Ob, int(2)), b(36)))))))

logF_fiducial_logF(line1, line2, line3, line4) ==
    add(add(add(line1, line2), line3), line4)

logF_fiducial(k, As, Om, Ob, h, ns, mnu, w0, wa) ==
    The({logF_fiducial_logF(line1, line2, line3, line4) :
         line1 \in {logF_fiducial_line1(h)},
         line2 \in {logF_fiducial_line2(k, Om, Ob, h)},
         line3 \in {logF_fiducial_line3(k, Om, h)},
         line4 \in {logF_fiducial_line4(k, Om, Ob, h)}})

\* ---------------------------------------------------- plin_plus_emulated
\* The default of the parameter a (def plin_plus_emulated(..., a=1)).
plin_plus_emulated_default_a == int(1)

\* The right-hand sides of the eight assignments of plin_plus_emulated, each
\* over the objects o its parameters are bound to and its locals l.
plin_l326(o, l) ==
    get_eisensteinhu(o.k, o.As, o.Om, o.Ob, o.h, o.ns, o.mnu, o.w0, o.wa)
plin_l327_frame(o, l) ==
    get_approximate_D_frame(o.k, o.As, o.Om, o.Ob, o.h, o.ns, o.mnu, o.w0, o.wa, l.a)
plin_l327(o, l) == plin_l327_frame(o, l).D
plin_l328(o, l) ==
    logF_fiducial(o.k, o.As, o.Om, o.Ob, o.h, o.ns, o.mnu, o.w0, o.wa)
plin_l330(o, l) == np_exp(l.logF_value)
\* Line 331 with the growth factor D passed where a is expected.
plin_l331_a_from_D(o, l) == R(o.As, o.Om, o.Ob, o.h, o.ns, o.mnu, o.w0, o.wa, l.D)
plin_l331(o, l) == R(o.As, o.Om, o.Ob, o.h, o.ns, o.mnu, o.w0, o.wa, l.a)
\* Line 332 with the arguments As and Om exchanged.
plin_l332_As_for_Om(o, l) ==
    log10_S(o.k, o.Om, o.As, o.Ob, o.h, o.ns, o.mnu, o.w0, o.wa)
plin_l332(o, l) ==
    log10_S(o.k, o.As, o.Om, o.Ob, o.h, o.ns, o.mnu, o.w0, o.wa)
plin_l333(o, l) == np_power(int(10), l.log10_S_value)
\* Line 335 with D in place of D**2.
plin_l335_D_unsquared(o, l) ==
    mul(mul(mul(mul(l.eh, l.D), l.F_value), l.R_value), l.S_value)
plin_l335(o, l) ==
    mul(mul(mul(mul(l.eh, pow(l.D, int(2))), l.F_value), l.R_value), l.S_value)

\* ------------------------------------------------- objects and assignment
\* A call binds the callee's parameter names to the caller's objects.  A
\* plain assignment name = value rebinds the callee's name: the object the
\* caller holds keeps its value.  (An in-place update of that object would
\* be seen by the caller.)
InPlaceAssign(bound, value) == value
PlainAssign(bound, value) == bound

\* The caller's objects after a call of get_approximate_D: the function
\* assigns to its parameter mnu (line 177); Omega and OL, which it updates
\* in place (lines 187, 188), are objects it created itself.
\* get_approximate_D converting the caller's array k in place (k *= h).
get_approximate_D_objects_k_in_place(o) == [o EXCEPT !.k = mul(o.k, o.h)]
get_approximate_D_objects(o) ==
    [o EXCEPT !.mnu = PlainAssign(o.mnu, get_approximate_D_mnu(o.mnu))]

\* ------------------------------------------------------------ the inputs
MaxLen == 2
KSeq == <<Dec(1, -2), Dec(1, 0), Dec(1, -1), Dec(2, 0)>>
KArrays == {ndarray(SubSeq(KSeq, 1, n)) : n \in 0..MaxLen}
AsValues == {lit(21, -1), lit(20, -1)}
MnuValues == {lit(0, 0), lit(6, -2)}
WValues == {<<lit(-9, -1), lit(1, -1)>>, <<lit(0, 0), lit(0, 0)>>,
            <<lit(0, 0), lit(5, -1)>>}
AValues == {None, int(1), lit(5, -1)}
Sigma8Values == {lit(8, -1)}

\* The calls the caller makes: the valid fiducial dark energy with every k,
\* As, mnu and a; the other dark energies with one k and one mnu.
Objects ==
    {o \in
       {[k |-> k, As |-> As, Om |-> lit(3, -1), Ob |-> lit(5, -2), h |-> lit(7, -1),
         ns |-> lit(96, -2), mnu |-> mnu, w0 |-> w[1], wa |-> w[2], a |-> a,
         sigma8 |-> s8] :
           k \in KArrays, As \in AsValues, mnu \in MnuValues, w \in WValues,
           a \in AValues, s8 \in Sigma8Values} :
       /\ Len(o.k.d) = 0 => o.a = None /\ o.mnu = lit(6, -2) /\ o.As = lit(21, -1)
       /\ o.w0 # lit(-9, -1) =>
            Len(o.k.d) = 1 /\ o.mnu = lit(6, -2) /\ o.As = lit(21, -1)}

\* ------------------------------------------------------------- the state
VARIABLES
    obj,    \* the objects the caller passes: k, As, Om, Ob, h, ns, mnu, w0, wa, a, sigma8
    given,  \* history: the values the caller gave those objects
    pc,     \* "idle", or the line of plin_plus_emulated about to run
    loc,    \* the locals of the running plin_plus_emulated
    ret,    \* the value the last call returned
    fn,     \* the function that returned it
    frame,  \* history: the locals of the last get_approximate_D at its return
    prev,   \* history: what the preceding call computed, if it was plin_plus_emulated
    swapped \* history: a sub-model of the running call was evaluated before one
            \* that precedes it in the source

vars == <<obj, given, pc, loc, ret, fn, frame, prev, swapped>>

NoLocals ==
    [a |-> None, eh |-> None, D |-> None, logF_value |-> None, F_value |-> None,
     R_value |-> None, log10_S_value |-> None, S_value |-> None, Pk |-> None]
NoFrame ==
    [mnu |-> None, Nnu |-> None, fnu |-> None, yfs |-> None, D1 |-> None, D |-> None]
NoPrev == [set |-> FALSE, obj |-> NoLocals, loc |-> NoLocals]

Init ==
    /\ obj \in Objects
    /\ given = obj
    /\ pc = "idle"
    /\ loc = NoLocals
    /\ ret = None
    /\ fn = ""
    /\ frame = NoFrame
    /\ prev = NoPrev
    /\ swapped = FALSE

\* ------------------------------------------------- calls from the caller
Returns(f, v) ==
    /\ pc = "idle"
    /\ ret' = v
    /\ fn' = f
    /\ prev' = NoPrev
    /\ UNCHANGED <<given, pc, loc, swapped>>

Call_Astosigma8 ==
    /\ Returns("Astosigma8",
               Astosigma8(obj.As, obj.Om, obj.Ob, obj.h, obj.ns, obj.mnu, obj.w0, obj.wa))
    /\ UNCHANGED <<obj, frame>>

Call_sigma8toAs ==
    /\ Returns("sigma8toAs",
               sigma8toAs(obj.sigma8, obj.Om, obj.Ob, obj.h, obj.ns, obj.mnu, obj.w0, obj.wa))
    /\ UNCHANGED <<obj, frame>>

\* sigma8toAs(Astosigma8(As, ...), ...): the caller passes on what
\* Astosigma8 has just returned.
Call_sigma8toAs_of_Astosigma8 ==
    /\ fn = "Astosigma8"
    /\ Returns("sigma8toAs(Astosigma8)",
               sigma8toAs(ret, obj.Om, obj.Ob, obj.h, obj.ns, obj.mnu, obj.w0, obj.wa))
    /\ UNCHANGED <<obj, frame>>

Call_R ==
    /\ obj.a # None
    /\ Returns("R", R(obj.As, obj.Om, obj.Ob, obj.h, obj.ns, obj.mnu, obj.w0, obj.wa, obj.a))
    /\ UNCHANGED <<obj, frame>>

Call_log10_S ==
    /\ Returns("log10_S",
               log10_S(obj.k, obj.As, obj.Om, obj.Ob, obj.h, obj.ns, obj.mnu, obj.w0, obj.wa))
    /\ UNCHANGED <<obj, frame>>

Call_get_approximate_D ==
    /\ obj.a # None
    /\ \E f \in {get_approximate_D_frame(obj.k, obj.As, obj.Om, obj.Ob, obj.h, obj.ns,
                                           obj.mnu, obj.w0, obj.wa, obj.a)} :
         /\ Returns("get_approximate_D", f.D)
         /\ frame' = f
    /\ obj' = get_approximate_D_objects(obj)

Call_get_eisensteinhu ==
    /\ Returns("get_eisensteinhu",
               get_eisensteinhu(obj.k, obj.As, obj.Om, obj.Ob, obj.h, obj.ns,
                                obj.mnu, obj.w0, obj.wa))
    /\ UNCHANGED <<obj, frame>>

Call_logF_fiducial ==
    /\ Returns("logF_fiducial",
               logF_fiducial(obj.k, obj.As, obj.Om, obj.Ob, obj.h, obj.ns,
                             obj.mnu, obj.w0, obj.wa))
    /\ UNCHANGED <<obj, frame>>

\* ------------------------------------- plin_plus_emulated, line by line
Plin_call ==
    /\ pc = "idle"
    /\ pc' = "l326"
    /\ loc' = [NoLocals EXCEPT
                 !.a = IF obj.a = None THEN plin_plus_emulated_default_a ELSE obj.a]
    /\ ret' = None
    /\ fn' = ""
    /\ UNCHANGED <<obj, given, frame, prev, swapped>>

Step(line, next, l) ==
    /\ pc = line
    /\ pc' = next
    /\ loc' = l
    /\ UNCHANGED <<given, ret, fn, prev, swapped>>

Plin_l326 ==
    /\ Step("l326", "l327", [loc EXCEPT !.eh = plin_l326(obj, loc)])
    /\ UNCHANGED <<obj, frame>>

Plin_l327 ==
    /\ \E f \in {plin_l327_frame(obj, loc)} :
         /\ Step("l327", "l328", [loc EXCEPT !.D = f.D])
         /\ frame' = f
    /\ obj' = get_approximate_D_objects(obj)

Plin_l328 ==
    /\ Step("l328", "l330", [loc EXCEPT !.logF_value = plin_l328(obj, loc)])
    /\ UNCHANGED <<obj, frame>>

Plin_l330 ==
    /\ Step("l330", "l331", [loc EXCEPT !.F_value = plin_l330(obj, loc)])
    /\ UNCHANGED <<obj, frame>>

Plin_l331 ==
    /\ Step("l331", "l332", [loc EXCEPT !.R_value = plin_l331(obj, loc)])
    /\ UNCHANGED <<obj, frame>>

Plin_l332 ==
    /\ Step("l332", "l333", [loc EXCEPT !.log10_S_value = plin_l332(obj, loc)])
    /\ UNCHANGED <<obj, frame>>

Plin_l333 ==
    /\ Step("l333", "l335", [loc EXCEPT !.S_value = plin_l333(obj, loc)])
    /\ UNCHANGED <<obj, frame>>

Plin_l335 ==
    /\ Step("l335", "l337", [loc EXCEPT !.Pk = plin_l335(obj, loc)])
    /\ UNCHANGED <<obj, frame>>

Plin_l337 ==
    /\ pc = "l337"
    /\ pc' = "idle"
    /\ ret' = loc.Pk
    /\ fn' = "plin_plus_emulated"
    /\ prev' = [set |-> TRUE, obj |-> obj, loc |-> loc]
    /\ loc' = NoLocals
    /\ UNCHANGED <<obj, given, frame, swapped>>

\* The caller calls plin_plus_emulated again with another amplitude As and
\* everything else as before.
Caller_changes_As ==
    /\ pc = "idle"
    /\ fn = "plin_plus_emulated"
    /\ prev.set /\ prev.obj.As = obj.As
    /\ \E As \in AsValues \ {obj.As} :
         /\ obj' = [obj EXCEPT !.As = As]
         /\ given' = [given EXCEPT !.As = As]
    /\ pc' = "l326"
    /\ loc' = [NoLocals EXCEPT
                 !.a = IF obj.a = None THEN plin_plus_emulated_default_a ELSE obj.a]
    /\ ret' = None
    /\ fn' = ""
    /\ UNCHANGED <<frame, prev, swapped>>

Next ==
    \/ Call_Astosigma8
    \/ Call_sigma8toAs
    \/ Call_sigma8toAs_of_Astosigma8
    \/ Call_R
    \/ Call_log10_S
    \/ Call_get_approximate_D
    \/ Call_get_eisensteinhu
    \/ Call_logF_fiducial
    \/ Plin_call
    \/ Plin_l326
    \/ Plin_l327
    \/ Plin_l328
    \/ Plin_l330
    \/ Plin_l331
    \/ Plin_l332
    \/ Plin_l333
    \/ Plin_l335
    \/ Plin_l337
    \/ Caller_changes_As

Spec == Init /\ [][Next]_vars

\* ------------------------------- the sub-models evaluated in any order
\* plin_plus_emulated with its five sub-model calls (lines 326, 327, 328,
\* 331, 332) evaluated one at a time in an order the scheduler chooses; the
\* lines 330, 333 and 335, which use their results, follow.
AnyOrder_call ==
    /\ pc = "idle"
    /\ pc' = "any"
    /\ loc' = [NoLocals EXCEPT
                 !.a = IF obj.a = None THEN plin_plus_emulated_default_a ELSE obj.a]
    /\ ret' = None
    /\ fn' = ""
    /\ prev' = NoPrev
    /\ swapped' = FALSE
    /\ UNCHANGED <<obj, given, frame>>

\* One sub-model is evaluated: later holds the results of the sub-models
\* that follow it in the source.
Evaluate(l, later) ==
    /\ pc = "any"
    /\ loc' = l
    /\ swapped' = (swapped \/ \E v \in later : v # None)
    /\ UNCHANGED <<given, pc, ret, fn, prev>>

Any_l326 ==
    /\ loc.eh = None
    /\ Evaluate([loc EXCEPT !.eh = plin_l326(obj, loc)],
                {loc.D, loc.logF_value, loc.R_value, loc.log10_S_value})
    /\ UNCHANGED <<obj, frame>>

Any_l327 ==
    /\ loc.D = None
    /\ \E f \in {plin_l327_frame(obj, loc)} :
         /\ Evaluate([loc EXCEPT !.D = f.D],
                     {loc.logF_value, loc.R_value, loc.log10_S_value})
         /\ frame' = f
    /\ obj' = get_approximate_D_objects(obj)

Any_l328 ==
    /\ loc.logF_value = None
    /\ Evaluate([loc EXCEPT !.logF_value = plin_l328(obj, loc)],
                {loc.R_value, loc.log10_S_value})
    /\ UNCHANGED <<obj, frame>>

Any_l331 ==
    /\ loc.R_value = None
    /\ Evaluate([loc EXCEPT !.R_value = plin_l331(obj, loc)], {loc.log10_S_value})
    /\ UNCHANGED <<obj, frame>>

Any_l332 ==
    /\ loc.log10_S_value = None
    /\ Evaluate([loc EXCEPT !.log10_S_value = plin_l332(obj, loc)], {})
    /\ UNCHANGED <<obj, frame>>

AllEvaluated ==
    /\ pc = "any"
    /\ None \notin {loc.eh, loc.D, loc.logF_value, loc.R_value, loc.log10_S_value}

Any_l330 ==
    /\ AllEvaluated
    /\ loc.F_value = None
    /\ loc' = [loc EXCEPT !.F_value = plin_l330(obj, loc)]
    /\ UNCHANGED <<obj, given, pc, ret, fn, frame, prev, swapped>>

Any_l333 ==
    /\ AllEvaluated
    /\ loc.F_value # None
    /\ loc.S_value = None
    /\ loc' = [loc EXCEPT !.S_value = plin_l333(obj, loc)]
    /\ UNCHANGED <<obj, given, pc, ret, fn, frame, prev, swapped>>

Any_l335 ==
    /\ AllEvaluated
    /\ loc.S_value # None
    /\ loc' = [loc EXCEPT !.Pk = plin_l335(obj, loc)]
    /\ pc' = "l337"
    /\ UNCHANGED <<obj, given, ret, fn, frame, prev, swapped>>

NextAnyOrder ==
    \/ AnyOrder_call
    \/ Any_l326
    \/ Any_l327
    \/ Any_l328
    \/ Any_l331
    \/ Any_l332
    \/ Any_l330
    \/ Any_l333
    \/ Any_l335
    \/ Plin_l337

SpecAnyOrder == Init /\ [][NextAnyOrder]_vars

\* ------------------------------------------------ results of whole calls
\* The locals of plin_plus_emulated when its lines have run in the order
\* of the source, from the objects o.
plin_plus_emulated_locals(o) ==
    The({The({The({The({The({The({The({The({
        [l7 EXCEPT !.Pk = plin_l335(o1, l7)]
        : l7 \in {[l6 EXCEPT !.S_value = plin_l333(o1, l6)]}})
        : l6 \in {[l5 EXCEPT !.log10_S_value = plin_l332(o1, l5)]}})
        : l5 \in {[l4 EXCEPT !.R_value = plin_l331(o1, l4)]}})
        : l4 \in {[l3 EXCEPT !.F_value = plin_l330(o1, l3)]}})
        : l3 \in {[l2 EXCEPT !.logF_value = plin_l328(o1, l2)]}})
        : l2 \in {[l1 EXCEPT !.D = plin_l327(o, l1)]},
          o1 \in {get_approximate_D_objects(o)}})
        : l1 \in {[l0 EXCEPT !.eh = plin_l326(o, l0)]}})
        : l0 \in {[NoLocals EXCEPT
                     !.a = IF o.a = None THEN plin_plus_emulated_default_a ELSE o.a]}})
plin_plus_emulated(o) == plin_plus_emulated_locals(o).Pk

\* What the call named f returns for the arguments o.
ResultOf(f, o) ==
    CASE f = "Astosigma8" ->
           Astosigma8(o.As, o.Om, o.Ob, o.h, o.ns, o.mnu, o.w0, o.wa)
      [] f = "sigma8toAs" ->
           sigma8toAs(o.sigma8, o.Om, o.Ob, o.h, o.ns, o.mnu, o.w0, o.wa)
      [] f = "sigma8toAs(Astosigma8)" ->
           sigma8toAs(Astosigma8(o.As, o.Om, o.Ob, o.h, o.ns, o.mnu, o.w0, o.wa),
                      o.Om, o.Ob, o.h, o.ns, o.mnu, o.w0, o.wa)
      [] f = "R" -> R(o.As, o.Om, o.Ob, o.h, o.ns, o.mnu, o.w0, o.wa, o.a)
      [] f = "log10_S" ->
           log10_S(o.k, o.As, o.Om, o.Ob, o.h, o.ns, o.mnu, o.w0, o.wa)
      [] f = "get_approximate_D" ->
           get_approximate_D(o.k, o.As, o.Om, o.Ob, o.h, o.ns, o.mnu, o.w0, o.wa, o.a)
      [] f = "get_eisensteinhu" ->
           get_eisensteinhu(o.k, o.As, o.Om, o.Ob, o.h, o.ns, o.mnu, o.w0, o.wa)
      [] f = "logF_fiducial" ->
           logF_fiducial(o.k, o.As, o.Om, o.Ob, o.h, o.ns, o.mnu, o.w0, o.wa)
      [] f = "plin_plus_emulated" -> plin_plus_emulated(o)

\* ------------------------------------------------------------ properties
Finite(v) == IsNum(v) /\ \A i \in 1..Len(v.d) : IsFin(v.d[i])

\* Equality up to the rounding of the arithmetic: a relative difference of
\* at most ten units of the last digit.
RelTol == Dec(1, 1 - Digits)
Close(x, y) ==
    IsFin(x) /\ IsFin(y) /\ ~FLess(FMul(RelTol, FAbs(y)), FAbs(FSub(x, y)))

\* The a that plin_plus_emulated computes with for the arguments o.
a_of(o) == IF o.a = None THEN int(1) ELSE o.a

\* EH * D^2 * F * Rv * S of the five sub-models called with the arguments o.
Product(o) ==
    mul(mul(mul(mul(get_eisensteinhu(o.k, o.As, o.Om, o.Ob, o.h, o.ns, o.mnu, o.w0, o.wa),
                    pow(get_approximate_D(o.k, o.As, o.Om, o.Ob, o.h, o.ns, o.mnu,
                                          o.w0, o.wa, a_of(o)),
                        int(2))),
                np_exp(logF_fiducial(o.k, o.As, o.Om, o.Ob, o.h, o.ns, o.mnu, o.w0, o.wa))),
            R(o.As, o.Om, o.Ob, o.h, o.ns, o.mnu, o.w0, o.wa, a_of(o))),
        np_power(int(10), log10_S(o.k, o.As, o.Om, o.Ob, o.h, o.ns, o.mnu, o.w0, o.wa)))

\* C1: plin_plus_emulated returns exactly the product EH * D^2 * F * Rv * S
\* of the five sub-models, each called with the arguments the caller gave,
\* and with a = 1 when the caller omits a.
C1_ProductOfSubModels ==
    fn = "plin_plus_emulated" => ret = Product(given)

C1_Witness ==
    /\ fn = "plin_plus_emulated"
    /\ given.a = None
    /\ Len(given.k.d) = 2
    /\ Finite(ret)
    /\ ret = Product([given EXCEPT !.a = int(1)])

\* The product term1 * term2 * term3 * term4 of the arguments o.
FittedProduct(o) ==
    Astosigma8_result(Astosigma8_term1(o.Om, o.Ob, o.w0, o.wa),
                      Astosigma8_term2(o.Om, o.ns, o.mnu, o.wa),
                      Astosigma8_term3(o.Om, o.Ob, o.ns),
                      Astosigma8_term4(o.Om, o.h, o.ns, o.mnu))
RoundTripDefined(o) ==
    /\ FLess(Zero, o.As.d[1])
    /\ Finite(FittedProduct(o))
    /\ ~IsZero(FittedProduct(o).d[1])

\* C2 (as amended): when the fitted product is finite and non-zero and
\* As > 0, sigma8toAs(Astosigma8(As, ...), ...) equals As up to the rounding
\* of the floating-point arithmetic.
C2_RoundTripWithinRounding ==
    fn = "sigma8toAs(Astosigma8)" /\ RoundTripDefined(given) =>
        Len(ret.d) = 1 /\ Close(ret.d[1], given.As.d[1])

C2_Witness ==
    /\ fn = "sigma8toAs(Astosigma8)"
    /\ RoundTripDefined(given)
    /\ ret.d[1] # given.As.d[1]
    /\ Close(ret.d[1], given.As.d[1])

\* C2 as stated: the round trip returns As itself.
C2_RoundTripExact ==
    fn = "sigma8toAs(Astosigma8)" /\ RoundTripDefined(given) =>
        ret.d = given.As.d

\* The sum part1 + part2 + part3 of R for the arguments o.
R_sum(o) ==
    add(add(R_part1, R_part2(R_denominator_inner1(o.Om, o.w0, o.wa, o.a))),
        R_part3(R_numerator_inner2(o.Om, o.w0, o.wa, o.a),
                R_denominator_inner2(o.Om, o.w0, o.wa, o.a)))

\* C3: for parameters for which part1 + part2 + part3 is finite,
\* R(..., a = 1) is exactly 1.
C3_IdentityAtOne ==
    fn = "R" /\ given.a = int(1) /\ Finite(R_sum(given)) => ret.d = <<One>>

C3_Witness ==
    /\ fn = "R"
    /\ given.a = int(1)
    /\ Finite(R_sum(given))
    /\ ~IsZero(R_sum(given).d[1])
    /\ ret.d = <<One>>

ArrayFunctions ==
    {"get_eisensteinhu", "get_approximate_D", "log10_S", "logF_fiducial",
     "plin_plus_emulated"}

\* C4: for an array k, each of get_eisensteinhu, get_approximate_D, log10_S,
\* logF_fiducial and plin_plus_emulated returns an array of the length of k
\* whose i-th entry is what the function returns for the i-th entry of k
\* alone.
C4_ShapePreserved ==
    fn \in ArrayFunctions /\ IsArr(given.k) =>
        /\ ret.kind = "arr"
        /\ Len(ret.d) = Len(given.k.d)
        /\ \A i \in 1..Len(given.k.d) :
             ResultOf(fn, [given EXCEPT !.k = ndarray(<<given.k.d[i]>>)]).d = <<ret.d[i]>>

C4_Witness ==
    /\ fn = "log10_S"
    /\ Len(given.k.d) = 2
    /\ ret.kind = "arr"
    /\ Len(ret.d) = 2
    /\ Finite(ret)
    /\ ret.d[1] # ret.d[2]

\* -c4*w0 - c5*wa <= 0 for the arguments o.
DomainFailure(o) ==
    ~FLess(Zero, sub(mul(neg(c(4)), o.w0), mul(c(5), o.wa)).d[1])

\* C5: Astosigma8 called with -c4*w0 - c5*wa <= 0 returns NaN and does not
\* raise.
C5_NaNNotRaised ==
    fn = "Astosigma8" /\ DomainFailure(given) => ret = npf(NaN)

C5_Witness ==
    /\ fn = "Astosigma8"
    /\ given.w0 = lit(0, 0)
    /\ given.wa = lit(0, 0)
    /\ DomainFailure(given)
    /\ ret = npf(NaN)

\* C6: whatever the order in which the five sub-models were evaluated, Pk
\* is the Pk of the order of the source.
C6_AnyOrderSamePk ==
    pc = "l337" => loc.Pk = plin_plus_emulated(given)

C6_Witness ==
    /\ pc = "l337"
    /\ swapped
    /\ Len(given.k.d) = 2
    /\ Finite(loc.Pk)
    /\ loc.Pk = plin_plus_emulated(given)

\* C7: whatever calls came before, a call returns what the function
\* returns for the arguments the caller gave.
C7_ResultOfArgumentsOnly ==
    fn # "" => ret = ResultOf(fn, given)

C7_Witness ==
    /\ fn = "sigma8toAs(Astosigma8)"
    /\ Finite(ret)
    /\ ret = ResultOf(fn, given)

\* C8 as stated: get_approximate_D called with mnu = 0.0 computes with
\* Nnu = 0.
C8_MasslessBranch ==
    fn = "get_approximate_D" /\ given.mnu = py(Zero) => frame.Nnu = int(0)

\* C9: the objects the caller passed keep the values the caller gave them,
\* during plin_plus_emulated and after every call.
C9_InputsUnchanged == obj = given

C9_Witness ==
    /\ pc = "l328"
    /\ frame.mnu # given.mnu
    /\ obj = given

\* A second call of plin_plus_emulated, with another As, is about to return.
SecondCall == pc = "l337" /\ prev.set /\ prev.obj.As # obj.As

SameButAs ==
    /\ loc.D = prev.loc.D
    /\ loc.logF_value = prev.loc.logF_value
    /\ loc.R_value = prev.loc.R_value
    /\ loc.log10_S_value = prev.loc.log10_S_value

\* C10 (as amended): two calls that differ only in As compute the same
\* get_approximate_D, logF_fiducial, R and log10_S, and their finite
\* results are in the ratio of the two As up to the rounding of the
\* floating-point arithmetic.
C10_OnlyThroughAs ==
    SecondCall =>
        /\ SameButAs
        /\ Finite(loc.Pk) /\ Finite(prev.loc.Pk) =>
             \A i \in 1..Len(loc.Pk.d) :
                 Close(FDiv(loc.Pk.d[i], prev.loc.Pk.d[i]),
                       FDiv(obj.As.d[1], prev.obj.As.d[1]))

C10_Witness ==
    /\ SecondCall
    /\ SameButAs
    /\ Len(loc.Pk.d) = 2
    /\ Finite(loc.Pk) /\ Finite(prev.loc.Pk)
    /\ loc.Pk # prev.loc.Pk

\* C10 as stated: the two results are in the ratio of the two As.
C10_ExactRatio ==
    SecondCall /\ Finite(loc.Pk) /\ Finite(prev.loc.Pk) =>
        \A i \in 1..Len(loc.Pk.d) :
            FDiv(loc.Pk.d[i], prev.loc.Pk.d[i]) = FDiv(obj.As.d[1], prev.obj.As.d[1])
====
